---- MODULE Spec2Model ----
(***************************************************************************)
(* Write path of phildb: the record codec, the regular and the irregular   *)
(* merge of writer.py, and the write dispatcher.  One record file (and its *)
(* sibling "backup" path) is modelled; a record is the tuple               *)
(* <<date, value, metaID>> that struct.pack('ldi') stores.                 *)
(***************************************************************************)
EXTENDS Integers, Sequences, FiniteSets, TLC

\* ---------------------------------------------------------------- bounds
MaxT == 2            \* regular periods are 0..MaxT
MaxIrrT == 1         \* irregular timestamps are 0..MaxIrrT (seconds)
MaxVal == 2          \* real values are 1..MaxVal
MaxLogLen == 2       \* the change log holds at most MaxLogLen rows and
                     \* write_log is called at most MaxLogLen times
MaxEnc == 2          \* records packed in a row by the codec

\* ------------------------------------------------------------- constants
DEFAULT_META_ID == 0
MISSING_VALUE == -9999
METADATA_MISSING_VALUE == 9999
Step == 86400        \* seconds in one period of the 'D' frequency
NaN == -1            \* token standing for the float not-a-number

Reals == 1..MaxVal
Values == Reals \cup {NaN}

\* IEEE comparison: NaN is unequal to everything, itself included.
isnan(v) == v = NaN
FloatEq(a, b) == ~isnan(a) /\ ~isnan(b) /\ a = b
FloatNe(a, b) == ~FloatEq(a, b)

\* ----------------------------------------------------------------- codec
\* entry_format = 'ldi': the widths in bytes of long, double and int
field_sizes == <<8, 8, 4>>
entry_size == 20

\* length in bytes of one packed record
calcsize(data) ==
    LET RECURSIVE Sum(_)
        Sum(i) == IF i = 0 THEN 0 ELSE field_sizes[i] + Sum(i - 1)
    IN  Sum(Len(data))

\* variant: a null value keeps the tag it was given
packKeepsTag(record_date, value, default_flag) ==
    IF isnan(value)
    THEN <<record_date, MISSING_VALUE, default_flag>>
    ELSE <<record_date, value, default_flag>>

pack(record_date, value, default_flag) ==
    IF isnan(value)
    THEN <<record_date, MISSING_VALUE, METADATA_MISSING_VALUE>>
    ELSE <<record_date, value, default_flag>>

\* reader.__read: the file as rows <<date, value, metaID>>, the MISSING
\* sentinel read back as not-a-number.
read(f) ==
    [i \in 1..Len(f) |->
        IF f[i][3] = METADATA_MISSING_VALUE
        THEN <<f[i][1], NaN, f[i][3]>>
        ELSE f[i]]

\* ------------------------------------------------------ sequence helpers
RECURSIVE SortedSeq(_)
SortedSeq(S) ==
    IF S = {} THEN <<>>
    ELSE LET m == CHOOSE x \in S : \A y \in S : x <= y
         IN  <<m>> \o SortedSeq(S \ {m})

Dates(rows) == {rows[i][1] : i \in 1..Len(rows)}
IndexOf(rows, d) == CHOOSE i \in 1..Len(rows) : rows[i][1] = d
RowAt(rows, d) == rows[IndexOf(rows, d)]

\* ------------------------------------------------------ input generation
\* A regular series after asfreq: start period s, one value per period.
MkSeries(s, vals) == [i \in 1..Len(vals) |-> <<(s + i - 1) * Step, vals[i]>>]
RegularSeries ==
    {MkSeries(s, vals) :
        s \in 0..MaxT,
        vals \in UNION {[1..n -> Values] : n \in 1..(MaxT + 1)}}
RegularInputs == {s \in RegularSeries : s[Len(s)][1] <= MaxT * Step}

\* An irregular series: sorted, unique timestamps.
IrrTimes == 0..MaxIrrT
SeriesOf(f) ==
    LET idx == SortedSeq(DOMAIN f)
    IN  [i \in 1..Len(idx) |-> <<idx[i], f[idx[i]]>>]
IrregularInputs ==
    {SeriesOf(f) : f \in UNION {[D -> Values] : D \in (SUBSET IrrTimes) \ {{}}}}

NoLog == [C |-> <<>>, U |-> <<>>]

\* ------------------------------------------------------- regular writer
to_period(d) == d \div Step
Offset(start_date, first_record_date) ==
    to_period(start_date) - to_period(first_record_date)

\* variant: the update case taken only strictly before the last record
IsUpdateStrict(start_date, last_record_date) == start_date < last_record_date

\* the two comparisons that select the case
IsUpdate(start_date, last_record_date) == start_date <= last_record_date
IsAppend(start_date, last_record_date) == start_date > last_record_date

\* variant: the file cut off behind the record written
WriteAtTruncating(f, pos, rec) ==
    SubSeq(f, 1, IF pos - 1 <= Len(f) THEN pos - 1 ELSE Len(f)) \o <<rec>>

\* writer.write at 1-based record position pos of an 'r+b' file
WriteAt(f, pos, rec) ==
    IF pos <= Len(f) THEN [f EXCEPT ![pos] = rec]
    ELSE f \o [j \in 1..(pos - Len(f) - 1) |-> <<0, 0, 0>>] \o <<rec>>

\* variant: the comparison of the values left out of the skip test
SkipEntryMetaOnly(existing_record, value) ==
    existing_record[3] = MISSING_VALUE

\* "Skip writing the entry if it hasn't changed."  The second disjunct
\* compares the stored metaID with MISSING_VALUE.
SkipEntry(existing_record, value) ==
    \/ FloatEq(existing_record[2], value)
    \/ existing_record[3] = MISSING_VALUE

UpdatedEntry(existing_record) == existing_record
CreatedEntry(datestamp, value) == <<datestamp, value, DEFAULT_META_ID>>

\* one iteration of the overlap loop; st = [file, C, U], rec_count 0-based
OverlapStep(st, existing_records, offset, rec_count, datestamp, value) ==
    LET records_length == Len(existing_records)
        overlapping == rec_count <= records_length - 1
        pos == offset + rec_count + 1
    IN  IF overlapping /\ SkipEntry(existing_records[rec_count + 1], value)
        THEN st
        ELSE IF overlapping /\ FloatNe(existing_records[rec_count + 1][2], value)
        THEN [file |-> WriteAt(st.file, pos, pack(datestamp, value, DEFAULT_META_ID)),
              C |-> Append(st.C, CreatedEntry(datestamp, value)),
              U |-> Append(st.U, UpdatedEntry(existing_records[rec_count + 1]))]
        ELSE [file |-> WriteAt(st.file, pos, pack(datestamp, value, DEFAULT_META_ID)),
              C |-> Append(st.C, CreatedEntry(datestamp, value)),
              U |-> st.U]

RECURSIVE OverlapLoop(_, _, _, _, _)
OverlapLoop(st, existing_records, offset, series, i) ==
    IF i > Len(series) THEN st
    ELSE OverlapLoop(
            OverlapStep(st, existing_records, offset, i - 1,
                        series[i][1], series[i][2]),
            existing_records, offset, series, i + 1)

\* variant: the gap range closed at start_date
missing_dates_inclusive(last_record_date, start_date) ==
    LET n == to_period(start_date) - to_period(last_record_date)
    IN  [j \in 1..(IF n > 0 THEN n ELSE 0) |-> last_record_date + j * Step]

\* variant: no gap fill
missing_dates_none(last_record_date, start_date) == <<>>

\* pd.date_range(last_record_date + 1 step, start_date - 1 step)
missing_dates(last_record_date, start_date) ==
    LET n == to_period(start_date) - to_period(last_record_date) - 1
    IN  [j \in 1..(IF n > 0 THEN n ELSE 0) |-> last_record_date + j * Step]

MissingRecord(datestamp) == <<datestamp, MISSING_VALUE, METADATA_MISSING_VALUE>>

AppendCase(f, series, last_record_date) ==
    LET gap == missing_dates(last_record_date, series[1][1])
        fill == [j \in 1..Len(gap) |-> MissingRecord(gap[j])]
        recs == [i \in 1..Len(series) |->
                    pack(series[i][1], series[i][2], DEFAULT_META_ID)]
        logs == [i \in 1..Len(series) |-> CreatedEntry(series[i][1], series[i][2])]
    IN  [file |-> f \o fill \o recs,
         log |-> [C |-> fill \o logs, U |-> <<>>],
         result |-> "ok", kind |-> "append"]

OverlapCase(f, series, offset) ==
    IF offset < 0
    THEN \* seek to a negative position fails before anything is written
         [file |-> f, log |-> NoLog, result |-> "IOFailure", kind |-> "overlap"]
    ELSE LET existing_records == SubSeq(f, offset + 1, Len(f))
             st == OverlapLoop([file |-> f, C |-> <<>>, U |-> <<>>],
                               existing_records, offset, series, 1)
         IN  [file |-> st.file, log |-> [C |-> st.C, U |-> st.U],
              result |-> "ok", kind |-> "overlap"]

write_regular_data(f, series) ==
    LET start_date == series[1][1]
        first_record_date == f[1][1]
        last_record_date == f[Len(f)][1]
        offset == Offset(start_date, first_record_date)
    IN  IF IsUpdate(start_date, last_record_date)
        THEN OverlapCase(f, series, offset)
        ELSE IF IsAppend(start_date, last_record_date)
        THEN AppendCase(f, series, last_record_date)
        ELSE [file |-> f, log |-> NoLog,
              result |-> "NotImplementedError", kind |-> "unsupported"]

\* variant: null values left out of a fresh file
FreshFileSkipsNaN(series) ==
    LET kept == SelectSeq(series, LAMBDA row : ~isnan(row[2]))
    IN  [i \in 1..Len(kept) |-> pack(kept[i][1], kept[i][2], DEFAULT_META_ID)]

\* the fresh-file branch of write
FreshFile(series) ==
    [i \in 1..Len(series) |-> pack(series[i][1], series[i][2], DEFAULT_META_ID)]
FreshLog(series) ==
    [C |-> [i \in 1..Len(series) |-> CreatedEntry(series[i][1], series[i][2])],
     U |-> <<>>]

\* ----------------------------------------------------- irregular writer
overlap_idx(existing, series) == Dates(existing) \cap Dates(series)

modified(existing, series) ==
    {d \in overlap_idx(existing, series) :
        FloatNe(RowAt(series, d)[2], RowAt(existing, d)[2])}

records_to_modify(existing, series) ==
    LET idx == SortedSeq(modified(existing, series))
    IN  [i \in 1..Len(idx) |-> RowAt(existing, idx[i])]

new_records(existing, series) == SortedSeq(Dates(series) \ Dates(existing))

\* pandas Series.combine_first: the union of both indexes, sorted; the
\* caller's value unless it is null, else the other's value.
combine_first(series, other) ==
    LET idx == SortedSeq(Dates(series) \cup Dates(other))
        val(d) == IF d \in Dates(series) /\ ~isnan(RowAt(series, d)[2])
                  THEN RowAt(series, d)[2]
                  ELSE IF d \in Dates(other) THEN RowAt(other, d)[2]
                  ELSE NaN
    IN  [i \in 1..Len(idx) |-> <<idx[i], val(idx[i])>>]

\* variant: the null pass left out
null_pass_skipped(merged, series) == merged

\* merged.loc[null_idx] = np.nan
null_pass(merged, series) ==
    [i \in 1..Len(merged) |->
        IF merged[i][1] \in Dates(series) /\ isnan(RowAt(series, merged[i][1])[2])
        THEN <<merged[i][1], NaN>>
        ELSE merged[i]]

append_only(existing, series) == overlap_idx(existing, series) = {}

Fmode(existing, series) == IF append_only(existing, series) THEN "ab" ELSE "wb"

Merged(existing, series) ==
    null_pass(IF append_only(existing, series)
              THEN series
              ELSE combine_first(series, existing),
              series)

IrrLog(existing, series) ==
    LET rtm == records_to_modify(existing, series)
        new == new_records(existing, series)
        mrg == Merged(existing, series)
    IN  [C |-> [i \in 1..Len(rtm) |->
                    <<rtm[i][1], RowAt(series, rtm[i][1])[2], rtm[i][3]>>]
               \o [i \in 1..Len(new) |->
                    <<new[i], RowAt(mrg, new[i])[2], DEFAULT_META_ID>>],
         U |-> [i \in 1..Len(rtm) |-> <<rtm[i][1], rtm[i][2], rtm[i][3]>>]]

NothingToDo(existing, series) ==
    Len(records_to_modify(existing, series)) = 0
        /\ Len(new_records(existing, series)) = 0

\* write_record: one row of merged[['datestamp', 'value']]
write_record(row) == pack(row[1], row[2], DEFAULT_META_ID)

\* ---------------------------------------------------------------- state
VARIABLES
    freq,          \* frequency the record file is written with: "D" or "IRR"
    fileExists,    \* os.path.isfile(tsdb_file)
    file,          \* records at tsdb_file
    backupExists,  \* tsdb_file + 'backup' exists
    backup,        \* records at tsdb_file + 'backup'
    pc,            \* position of the write: "idle" when no write is running,
                   \* "returned" when write has handed its result to the caller
    series,        \* input of the write
    pre,           \* records at tsdb_file when the write began
    merged,        \* irregular writer: rows to write
    fmode,         \* irregular writer: open mode
    nwritten,      \* irregular writer: rows written by write_record so far
    log_entries,   \* [C, U] of the write
    result,        \* how the write ended
    kind,          \* branch taken by the write
    again,         \* the caller repeated the input of its previous write
    logExists,     \* os.path.exists(log_file)
    logTable,      \* rows <<time, value, meta, replacement_time>> of /data/log
    logPrev,       \* rows of /data/log when the last write_log began
    stamp,         \* operation_datetime of the last write_log
    codecIn,       \* triples <<record_date, value, flag>> handed to __pack
    codecOut,      \* the records __pack returned for them, in order
    wpc,           \* two writers on one path: position of each
    wseries,       \* two writers on one path: input of each
    wtail          \* two writers on one path: <<first_record, last_record>>
                   \* each has read

\* state of the change log and of the codec on its own
conc == <<wpc, wseries, wtail>>
aux == <<logExists, logTable, logPrev, stamp, codecIn, codecOut, conc>>

vars == <<freq, fileExists, file, backupExists, backup, pc, series, pre,
          merged, fmode, nwritten, log_entries, result, kind, again, aux>>

irrLocals == <<merged, fmode, nwritten>>

\* the two processes writing to one record file
Writers == {"a", "b"}

Init ==
    /\ freq \in {"D", "IRR"}
    /\ fileExists = FALSE
    /\ file = <<>>
    /\ backupExists = FALSE
    /\ backup = <<>>
    /\ pc = "idle"
    /\ series = <<>>
    /\ pre = <<>>
    /\ merged = <<>>
    /\ fmode = ""
    /\ nwritten = 0
    /\ log_entries = NoLog
    /\ result = "none"
    /\ kind = "none"
    /\ again = FALSE
    /\ logExists = FALSE
    /\ logTable = <<>>
    /\ logPrev = <<>>
    /\ stamp = 0
    /\ codecIn = <<>>
    /\ codecOut = <<>>
    /\ wpc = [w \in Writers |-> "idle"]
    /\ wseries = [w \in Writers |-> <<>>]
    /\ wtail = [w \in Writers |-> <<>>]

Inputs == IF freq = "IRR" THEN IrregularInputs ELSE RegularInputs

\* The caller starts a write with any input, or repeats the write that has
\* just returned normally with the same input.
CanStart(s) ==
    \/ pc = "idle"
    \/ pc = "returned" /\ result = "ok" /\ s = series

StartInputs ==
    IF pc = "idle" THEN Inputs
    ELSE IF pc = "returned" /\ series # <<>> THEN {series}
    ELSE {}

\* write: len(series) == 0
WriteEmpty ==
    /\ CanStart(<<>>)
    /\ again' = (pc = "returned")
    /\ series' = <<>>
    /\ pre' = (IF fileExists THEN file ELSE <<>>)
    /\ log_entries' = NoLog
    /\ result' = "ok"
    /\ kind' = "empty"
    /\ pc' = "returned"
    /\ merged' = <<>> /\ fmode' = "" /\ nwritten' = 0
    /\ UNCHANGED <<aux, freq, fileExists, file, backupExists, backup>>

\* write: the file does not exist
WriteFresh(s) ==
    /\ CanStart(s)
    /\ ~fileExists
    /\ again' = (pc = "returned")
    /\ series' = s
    /\ pre' = <<>>
    /\ fileExists' = TRUE
    /\ file' = FreshFile(s)
    /\ log_entries' = FreshLog(s)
    /\ result' = "ok"
    /\ kind' = "fresh"
    /\ pc' = "returned"
    /\ merged' = <<>> /\ fmode' = "" /\ nwritten' = 0
    /\ UNCHANGED <<aux, freq, backupExists, backup>>

\* write -> write_regular_data
WriteRegular(s) ==
    /\ CanStart(s)
    /\ fileExists
    /\ freq # "IRR"
    /\ again' = (pc = "returned")
    /\ LET r == write_regular_data(file, s)
       IN  /\ file' = r.file
           /\ log_entries' = r.log
           /\ result' = r.result
           /\ kind' = r.kind
    /\ series' = s
    /\ pre' = file
    /\ pc' = "returned"
    /\ merged' = <<>> /\ fmode' = "" /\ nwritten' = 0
    /\ UNCHANGED <<aux, freq, fileExists, backupExists, backup>>

\* write -> write_irregular_data, up to the rename
IrrBegin(s) ==
    /\ CanStart(s)
    /\ fileExists
    /\ freq = "IRR"
    /\ again' = (pc = "returned")
    /\ series' = s
    /\ pre' = file
    /\ nwritten' = 0
    /\ LET existing == read(file)
       IN  IF NothingToDo(existing, s)
           THEN /\ log_entries' = NoLog
                /\ result' = "ok"
                /\ kind' = "irr_noop"
                /\ merged' = <<>> /\ fmode' = ""
                /\ pc' = "returned"
           ELSE /\ log_entries' = IrrLog(existing, s)
                /\ result' = "none"
                /\ kind' = "irr"
                /\ merged' = Merged(existing, s)
                /\ fmode' = Fmode(existing, s)
                /\ pc' = "clean"
    /\ UNCHANGED <<aux, freq, fileExists, file, backupExists, backup>>

\* os.rename(tsdb_file, tsdb_file + 'backup')
IrrRename ==
    /\ pc = "clean"
    /\ backupExists' = TRUE
    /\ backup' = file
    /\ fileExists' = FALSE
    /\ file' = <<>>
    /\ pc' = "backedup"
    /\ UNCHANGED <<aux, freq, series, pre, irrLocals, log_entries, result, kind, again>>

\* open(tsdb_file, fmode): 'wb' truncates, 'ab' keeps what is at the path
OpenedContent == IF fmode = "ab" /\ fileExists THEN file ELSE <<>>

\* variant: the backup unlinked as soon as the target is open
IrrOpenUnlinksBackup ==
    /\ pc = "backedup"
    /\ fileExists' = TRUE
    /\ file' = OpenedContent
    /\ backupExists' = FALSE
    /\ backup' = <<>>
    /\ pc' = "rewriting"
    /\ UNCHANGED <<aux, freq, series, pre, irrLocals, log_entries, result, kind, again>>

IrrOpen ==
    /\ pc = "backedup"
    /\ fileExists' = TRUE
    /\ file' = OpenedContent
    /\ pc' = "rewriting"
    /\ UNCHANGED <<aux, freq, backupExists, backup, series, pre, irrLocals,
                   log_entries, result, kind, again>>

\* open raises
IrrOpenFail ==
    /\ pc = "backedup"
    /\ pc' = "failed"
    /\ UNCHANGED <<aux, freq, fileExists, file, backupExists, backup, series, pre,
                   irrLocals, log_entries, result, kind, again>>

\* one call of write_record by np.apply_along_axis
IrrWriteRecord ==
    /\ pc = "rewriting"
    /\ nwritten < Len(merged)
    /\ file' = Append(file, write_record(merged[nwritten + 1]))
    /\ nwritten' = nwritten + 1
    /\ UNCHANGED <<aux, freq, fileExists, backupExists, backup, pc, series, pre,
                   merged, fmode, log_entries, result, kind, again>>

\* variant: the exception swallowed, the write taken as complete
IrrWriteFailSwallowed ==
    /\ pc = "rewriting"
    /\ nwritten < Len(merged)
    /\ pc' = "written"
    /\ UNCHANGED <<aux, freq, fileExists, file, backupExists, backup, series, pre,
                   irrLocals, log_entries, result, kind, again>>

\* write_record raises after nwritten of Len(merged) rows
IrrWriteFail ==
    /\ pc = "rewriting"
    /\ nwritten < Len(merged)
    /\ pc' = "failed"
    /\ UNCHANGED <<aux, freq, fileExists, file, backupExists, backup, series, pre,
                   irrLocals, log_entries, result, kind, again>>

\* the with block ends normally
IrrClose ==
    /\ pc = "rewriting"
    /\ nwritten = Len(merged)
    /\ pc' = "written"
    /\ UNCHANGED <<aux, freq, fileExists, file, backupExists, backup, series, pre,
                   irrLocals, log_entries, result, kind, again>>

\* variant: the write returns without unlinking the backup
IrrReturnKeepsBackup ==
    /\ pc = "written"
    /\ result' = "ok"
    /\ pc' = "returned"
    /\ UNCHANGED <<aux, freq, fileExists, file, backupExists, backup, series,
                   pre, irrLocals, log_entries, kind, again>>

\* else: os.unlink(tsdb_file + 'backup'); return log_entries
IrrUnlink ==
    /\ pc = "written"
    /\ backupExists' = FALSE
    /\ backup' = <<>>
    /\ result' = "ok"
    /\ pc' = "returned"
    /\ UNCHANGED <<aux, freq, fileExists, file, series, pre, irrLocals,
                   log_entries, kind, again>>

\* variant: the exception re-raised without the rename back
IrrRestoreNoRename ==
    /\ pc = "failed"
    /\ result' = "raised"
    /\ pc' = "returned"
    /\ UNCHANGED <<aux, freq, fileExists, file, backupExists, backup, series, pre,
                   irrLocals, log_entries, kind, again>>

\* except Exception: os.rename(tsdb_file + 'backup', tsdb_file); raise
IrrRestore ==
    /\ pc = "failed"
    /\ fileExists' = TRUE
    /\ file' = backup
    /\ backupExists' = FALSE
    /\ backup' = <<>>
    /\ result' = "raised"
    /\ pc' = "returned"
    /\ UNCHANGED <<aux, freq, series, pre, irrLocals, log_entries, kind, again>>

\* the process dies between two steps of an irregular write
Crash ==
    /\ pc \in {"clean", "backedup", "rewriting", "written", "failed"}
    /\ pc' = "crashed"
    /\ UNCHANGED <<aux, freq, fileExists, file, backupExists, backup, series, pre,
                   irrLocals, log_entries, result, kind, again>>

\* the caller is done with the result; the locals of write are gone
Return ==
    /\ pc = "returned"
    /\ pc' = "idle"
    /\ series' = <<>>
    /\ pre' = <<>>
    /\ merged' = <<>> /\ fmode' = "" /\ nwritten' = 0
    /\ log_entries' = NoLog
    /\ result' = "none"
    /\ kind' = "none"
    /\ again' = FALSE
    /\ UNCHANGED <<aux, freq, fileExists, file, backupExists, backup>>

Next ==
    \/ WriteEmpty
    \/ \E s \in StartInputs : WriteFresh(s)
    \/ \E s \in StartInputs : WriteRegular(s)
    \/ \E s \in StartInputs : IrrBegin(s)
    \/ IrrRename
    \/ IrrOpen
    \/ IrrOpenFail
    \/ IrrWriteRecord
    \/ IrrWriteFail
    \/ IrrClose
    \/ IrrUnlink
    \/ IrrRestore
    \/ Crash
    \/ Return

Spec == Init /\ [][Next]_vars

\* ------------------------------------------------------------ change log
\* variant: the rows stamped with the time of the data
LogRowDataTime(entry, operation_datetime, same_object) ==
    IF isnan(entry[2]) /\ same_object
    THEN <<entry[1], MISSING_VALUE, METADATA_MISSING_VALUE, entry[1]>>
    ELSE <<entry[1], entry[2], entry[3], entry[1]>>

\* One row of /data/log for one entry of log_entries['C'].  `val is np.nan`
\* is an identity test: same_object tells whether the caller's null values
\* are the np.nan object itself.
LogRow(entry, operation_datetime, same_object) ==
    IF isnan(entry[2]) /\ same_object
    THEN <<entry[1], MISSING_VALUE, METADATA_MISSING_VALUE, operation_datetime>>
    ELSE <<entry[1], entry[2], entry[3], operation_datetime>>

\* variant: the entries of 'U' logged after those of 'C'
LoggedEntriesWithUpdated(changes) == changes.C \o changes.U

\* for dt, val, meta in iter(log_entries['C'])
LoggedEntries(changes) == changes.C

\* LogHandler.write: the rows appended by one call
LogRows(changes, operation_datetime, same_object) ==
    LET entries == LoggedEntries(changes)
    IN  [i \in 1..Len(entries) |->
            LogRow(entries[i], operation_datetime, same_object)]

\* create_skeleton: the new container holds an empty table
create_skeleton == <<>>

\* merge results a caller can hand to write_log: what write returns for a
\* fresh file and for a regular write onto it
LogSeries == {s \in RegularInputs : Len(s) <= 2}
FirstSeries == {s \in LogSeries : Len(s) = 1 /\ s[1][1] = 0}
MergeResults ==
    {NoLog} \cup {FreshLog(s) : s \in LogSeries}
            \cup {write_regular_data(FreshFile(a), b).log :
                      a \in FirstSeries, b \in LogSeries}

\* write_log(log_file, modified, replacement_datetime); the wall clock
\* moves on by one between two calls
WriteLog(changes, same_object) ==
    /\ pc = "idle"
    /\ stamp < MaxLogLen
    /\ Len(logTable) + Len(changes.C) <= MaxLogLen
    /\ stamp' = stamp + 1
    /\ logExists' = TRUE
    /\ logPrev' = (IF logExists THEN logTable ELSE create_skeleton)
    /\ logTable' = logPrev' \o LogRows(changes, stamp', same_object)
    /\ log_entries' = changes
    /\ UNCHANGED <<freq, fileExists, file, backupExists, backup, pc, series,
                   pre, merged, fmode, nwritten, result, kind, again, codecIn,
                   codecOut, conc>>

NextLog == \E changes \in MergeResults, same_object \in BOOLEAN :
               WriteLog(changes, same_object)

SpecLog == Init /\ [][NextLog]_vars

\* ------------------------------------------------------- codec on its own
\* tags a caller can pass as default_flag
Tags == {DEFAULT_META_ID, METADATA_MISSING_VALUE} \cup Reals

\* __pack(record_date, value, default_flag) called on any triple
Encode(record_date, value, default_flag) ==
    /\ pc = "idle"
    /\ Len(codecIn) < MaxEnc
    /\ codecIn' = Append(codecIn, <<record_date, value, default_flag>>)
    /\ codecOut' = Append(codecOut, pack(record_date, value, default_flag))
    /\ UNCHANGED <<freq, fileExists, file, backupExists, backup, pc, series,
                   pre, merged, fmode, nwritten, log_entries, result, kind,
                   again, logExists, logTable, logPrev, stamp, conc>>

\* values a caller can pass: the sentinel is itself a real number
CodecValues == Values \cup {MISSING_VALUE}

NextCodec == \E t \in IrrTimes, v \in CodecValues, m \in Tags : Encode(t, v, m)

SpecCodec == Init /\ [][NextCodec]_vars

\* --------------------------------------------- two writers on one path
\* write_regular_data with the tail read earlier: the case is chosen and the
\* gap filled from the first and last record the writer read, the records
\* are written to the file as it is now
seek_write(f, ts, first_record, last_record) ==
    LET start_date == ts[1][1]
        offset == Offset(start_date, first_record[1])
    IN  IF IsUpdate(start_date, last_record[1])
        THEN OverlapCase(f, ts, offset)
        ELSE AppendCase(f, ts, last_record[1])

\* with open(tsdb_file, 'rb') as reader: first_record, last_record
ConcReadTail(w, s) ==
    /\ pc = "idle" /\ freq = "D" /\ fileExists
    /\ Len(file) < MaxT
    /\ wpc[w] = "idle"
    /\ wpc' = [wpc EXCEPT ![w] = "tail"]
    /\ wseries' = [wseries EXCEPT ![w] = s]
    /\ wtail' = [wtail EXCEPT ![w] = <<file[1], file[Len(file)]>>]
    /\ UNCHANGED <<freq, fileExists, file, backupExists, backup, pc, series,
                   pre, irrLocals, log_entries, result, kind, again,
                   logExists, logTable, logPrev, stamp, codecIn, codecOut>>

\* with open(tsdb_file, 'r+b' or 'a+b') as writer: ... return log_entries
ConcSeekWrite(w) ==
    /\ wpc[w] = "tail"
    /\ LET r == seek_write(file, wseries[w], wtail[w][1], wtail[w][2])
       IN  /\ file' = r.file
           /\ log_entries' = r.log
    /\ wpc' = [wpc EXCEPT ![w] = "idle"]
    /\ wseries' = [wseries EXCEPT ![w] = <<>>]
    /\ wtail' = [wtail EXCEPT ![w] = <<>>]
    /\ UNCHANGED <<freq, fileExists, backupExists, backup, pc, series,
                   pre, irrLocals, result, kind, again,
                   logExists, logTable, logPrev, stamp, codecIn, codecOut>>

\* inputs of the two writers: one observation each
FirstWrites == {s \in RegularInputs : Len(s) = 1}

NextConc ==
    \/ \E s \in StartInputs : WriteFresh(s)
    \/ Return
    \/ \E w \in Writers, s \in FirstWrites : ConcReadTail(w, s)
    \/ \E w \in Writers : ConcSeekWrite(w)

SpecConc == Init /\ [][NextConc]_vars

\* ================================================================ claims
\* helpers of the properties below
Returned == pc = "returned"
InFlight == {"clean", "backedup", "rewriting", "written", "failed", "crashed"}
PackedRows(rows) ==
    [i \in 1..Len(rows) |->
        IF rows[i][2] = NaN
        THEN <<rows[i][1], MISSING_VALUE, METADATA_MISSING_VALUE>>
        ELSE <<rows[i][1], rows[i][2], DEFAULT_META_ID>>]
IsMissingRecord(rec) == rec[2] = MISSING_VALUE /\ rec[3] = METADATA_MISSING_VALUE
HeldAtPath == fileExists /\ file = pre
HeldAtBackup == backupExists /\ backup = pre

\* C1: after a successful irregular write to an existing file, every
\* observation that was on disk and whose timestamp is not in the input is
\* still on disk with its prior value, and the timestamps on disk are the
\* union of the existing and the input timestamps (rewrite path and
\* pure-append path alike).
C1_IrregularWriteKeepsOthers ==
    (Returned /\ result = "ok" /\ kind \in {"irr", "irr_noop"}) =>
        /\ \A i \in 1..Len(pre) :
              pre[i][1] \notin Dates(series) =>
                 \E j \in 1..Len(file) :
                    file[j][1] = pre[i][1] /\ file[j][2] = pre[i][2]
        /\ Dates(file) = Dates(pre) \cup Dates(series)

\* C2: when the irregular merge fails while opening the target or after
\* 0..M-1 of the M merged records, the write ends with the failure raised
\* to the caller and the record file identical to the pre-merge file.
C2_FailedMergeRestoresFile ==
    (Returned /\ kind = "irr") =>
        /\ nwritten < Len(merged) => result = "raised"
        /\ result = "raised" => fileExists /\ file = pre

C2_Witness ==
    /\ Returned /\ kind = "irr" /\ result = "raised"
    /\ fmode = "wb" /\ 0 < nwritten /\ nwritten < Len(merged)

\* C3: from the start of an irregular write up to its commit, a crash at any
\* step included, the complete pre-merge content is at the original path or
\* at the backup path; the backup is gone without the original restored
\* only when every merged record has been written.
C3_PreMergeContentRecoverable ==
    /\ (kind = "irr" /\ pc \in InFlight) => HeldAtPath \/ HeldAtBackup
    /\ (kind = "irr" /\ Returned /\ ~HeldAtPath) =>
          /\ result = "ok"
          /\ nwritten = Len(merged)
          /\ SubSeq(file, Len(file) - Len(merged) + 1, Len(file)) = PackedRows(merged)

C3_Witness ==
    /\ pc = "crashed" /\ kind = "irr" /\ backupExists
    /\ 0 < nwritten /\ nwritten < Len(merged)
    /\ file # pre

\* C4 as stated: during an irregular rewrite a reader of the original path
\* sees the complete pre-merge series or the complete merged series at
\* every intermediate step.
C4_NeverPartiallyWritten ==
    (kind = "irr" /\ fmode = "wb" /\ pc \in InFlight) =>
        fileExists /\ (file = pre \/ file = PackedRows(merged))

\* C4 amended: during an irregular rewrite the original path holds the
\* complete pre-merge series, the complete merged series, or, only while
\* the backup file holds the complete pre-merge series, no file or the
\* first nwritten records of the merged series; once the write has
\* returned or raised it holds the complete merged or pre-merge series.
C4_PartialOnlyWhileBackedUp ==
    (kind = "irr" /\ fmode = "wb") =>
        /\ \/ fileExists /\ file = pre
           \/ fileExists /\ file = PackedRows(merged)
           \/ /\ HeldAtBackup
              /\ pc \in InFlight
              /\ \/ ~fileExists
                 \/ file = SubSeq(PackedRows(merged), 1, nwritten)
        /\ Returned => fileExists /\ (file = pre \/ file = PackedRows(merged))

C4_Witness ==
    /\ kind = "irr" /\ fmode = "wb" /\ pc = "rewriting"
    /\ 0 < nwritten /\ nwritten < Len(merged)
    /\ file # pre /\ file # PackedRows(merged)

\* C5: writing a regular series and then writing the same series again
\* (series with missing values included) yields an empty 'updated' list on
\* the second write and leaves the file as the first write left it.
C5_IdempotentRewrite ==
    (Returned /\ freq = "D" /\ again /\ series # <<>>) =>
        /\ result = "ok"
        /\ log_entries.U = <<>>
        /\ file = pre

\* position of the first input record relative to the last record on disk
GapK == to_period(series[1][1]) - to_period(pre[Len(pre)][1])

\* C6 as stated: an append-case write whose data starts k calendar steps
\* past the prior last timestamp inserts exactly k MISSING records, and the
\* record k + 1 places after the prior last record is the first new value.
C6_GapFillK ==
    (Returned /\ kind = "append") =>
        /\ Len(file) = Len(pre) + GapK + Len(series)
        /\ \A j \in 1..GapK : IsMissingRecord(file[Len(pre) + j])
        /\ file[Len(pre) + GapK + 1] = PackedRows(series)[1]

\* C6 amended: an append-case write whose data starts k calendar steps past
\* the prior last timestamp inserts exactly k - 1 MISSING records, one per
\* step strictly between the two timestamps, and the record k places after
\* the prior last record is the first new value; the prior records and the
\* rest of the input follow unchanged and in order.
C6_GapFillKMinusOne ==
    (Returned /\ kind = "append") =>
        /\ GapK >= 1
        /\ file = pre
                  \o [j \in 1..(GapK - 1) |->
                        <<pre[Len(pre)][1] + j * Step,
                          MISSING_VALUE, METADATA_MISSING_VALUE>>]
                  \o PackedRows(series)
        /\ file[Len(pre) + GapK] = PackedRows(series)[1]

C6_Witness ==
    /\ Returned /\ kind = "append" /\ GapK = 2
    /\ ~IsMissingRecord(file[Len(file)])

EntriesAt(entries, d) == {j \in 1..Len(entries) : entries[j][1] = d}
Increasing(entries) ==
    \A i, j \in 1..Len(entries) : i < j => entries[i][1] < entries[j][1]

\* C8: in a regular overlap write, for every input position: (1) the record
\* on disk holds the same value: nothing goes to 'created' or 'updated';
\* (2) it holds a different real value: the old observation goes to
\* 'updated' and the new one to 'created'; (3) the position is past the
\* tail on disk: the new observation goes to 'created' only.  Both lists
\* are in input order.
C8_ChangeClassification ==
    (Returned /\ kind = "overlap" /\ result = "ok") =>
        LET offset == Offset(series[1][1], pre[1][1])
            C == log_entries.C
            U == log_entries.U
        IN  /\ Increasing(C) /\ Increasing(U)
            /\ \A i \in 1..Len(series) :
                 LET p == offset + i
                     d == series[i][1]
                     v == series[i][2]
                 IN  /\ (p <= Len(pre) /\ FloatEq(pre[p][2], v)) =>
                            /\ EntriesAt(C, d) = {}
                            /\ EntriesAt(U, d) = {}
                     /\ (p <= Len(pre) /\ ~IsMissingRecord(pre[p])
                                       /\ FloatNe(pre[p][2], v)) =>
                            /\ \E j \in 1..Len(U) :
                                  EntriesAt(U, d) = {j} /\ U[j] = pre[p]
                            /\ \E j \in 1..Len(C) :
                                  /\ EntriesAt(C, d) = {j}
                                  /\ C[j] = <<d, v, DEFAULT_META_ID>>
                     /\ p > Len(pre) =>
                            /\ EntriesAt(U, d) = {}
                            /\ \E j \in 1..Len(C) :
                                  /\ EntriesAt(C, d) = {j}
                                  /\ C[j] = <<d, v, DEFAULT_META_ID>>

\* the example of the claim on values 1, 2: t1 unchanged, t2 replaced, t3 new
C8_Witness ==
    /\ Returned /\ kind = "overlap" /\ result = "ok"
    /\ pre = <<<<0, 1, 0>>, <<Step, 2, 0>>>>
    /\ series = <<<<0, 1>>, <<Step, 1>>, <<2 * Step, 2>>>>
    /\ log_entries.C = <<<<Step, 1, 0>>, <<2 * Step, 2, 0>>>>
    /\ log_entries.U = <<<<Step, 2, 0>>>>

StartsAtLast ==
    /\ Returned /\ kind \in {"overlap", "append", "unsupported"}
    /\ series[1][1] = pre[Len(pre)][1]

C10_MissingOverwrite ==
    (Returned /\ kind = "irr" /\ result = "ok") =>
        \A d \in Dates(pre) \cap Dates(series) :
            LET v == RowAt(series, d)[2]
                old == RowAt(pre, d)
                recs == {j \in 1..Len(file) : file[j][1] = d}
            IN  /\ Cardinality(recs) = 1
                /\ \A j \in recs :
                      IF v = NaN
                      THEN IsMissingRecord(file[j])
                      ELSE file[j][2] = v

C10_Witness ==
    /\ Returned /\ kind = "irr" /\ result = "ok"
    /\ \E d \in Dates(pre) \cap Dates(series) :
          RowAt(series, d)[2] = NaN /\ ~IsMissingRecord(RowAt(pre, d))
    /\ \E d \in Dates(pre) \cap Dates(series) :
          RowAt(series, d)[2] # NaN /\ RowAt(series, d)[2] # RowAt(pre, d)[2]

\* C11: writing a non-empty series to a path that does not exist yet
\* (regular or irregular) produces a file with exactly len(series) records
\* in input order, returns every input observation in 'created' and an
\* empty 'updated', and never enters the regular or the irregular merge.
C11_FreshFileFastPath ==
    /\ (Returned /\ kind = "fresh") =>
          /\ pre = <<>>
          /\ fileExists
          /\ Len(file) = Len(series)
          /\ \A i \in 1..Len(series) :
                /\ file[i][1] = series[i][1]
                /\ file[i] = PackedRows(series)[i]
                /\ log_entries.C[i] = <<series[i][1], series[i][2], DEFAULT_META_ID>>
          /\ Len(log_entries.C) = Len(series)
          /\ log_entries.U = <<>>
          /\ result = "ok"
          /\ merged = <<>> /\ fmode = "" /\ ~backupExists
    /\ (Returned /\ series # <<>> /\ pre = <<>>) => kind = "fresh"

C11_Witness ==
    /\ Returned /\ kind = "fresh" /\ Len(series) >= 2
    /\ \E i \in 1..Len(series) : series[i][2] = NaN
    /\ \E i \in 1..Len(series) : series[i][2] # NaN

\* C12: for every write each entry (timestamp, value, tag) of 'created'
\* equals the record on disk at that timestamp after the write, tag and
\* MISSING sentinel pair included, and 'updated' has an entry only for a
\* timestamp whose prior on-disk value existed and differs from the new one.
C12_CreatedIsDiskTruth ==
    (Returned /\ result = "ok") =>
        /\ \A i \in 1..Len(log_entries.C) :
              \E j \in 1..Len(file) : file[j] = log_entries.C[i]
        /\ \A i \in 1..Len(log_entries.U) :
              LET d == log_entries.U[i][1]
              IN  /\ d \in Dates(pre)
                  /\ d \in Dates(file)
                  /\ RowAt(pre, d)[2] # RowAt(file, d)[2]

\* C13: a regular overlap or append write never truncates or reorders the
\* file, leaves every record outside the window
\* [offset, offset + len(input)) as it was, and inside the window changes
\* only positions classified as update (positions past the tail are new).
C13_RegularWriteFrame ==
    (Returned /\ kind \in {"overlap", "append"}) =>
        LET offset == Offset(series[1][1], pre[1][1])
            inWindow(p) == offset + 1 <= p /\ p <= offset + Len(series)
        IN  /\ Len(file) >= Len(pre)
            /\ \A p \in 1..Len(pre) :
                  /\ file[p][1] = pre[p][1]
                  /\ ~inWindow(p) => file[p] = pre[p]
                  /\ (inWindow(p) /\ file[p] # pre[p]) =>
                        \E j \in 1..Len(log_entries.U) : log_entries.U[j] = pre[p]
            /\ \A p \in (Len(pre) + 1)..Len(file) :
                  inWindow(p) \/ IsMissingRecord(file[p])

C13_Witness ==
    /\ Returned /\ kind = "overlap" /\ result = "ok"
    /\ Offset(series[1][1], pre[1][1]) >= 1
    /\ Len(pre) > Offset(series[1][1], pre[1][1]) + Len(series)
    /\ file # pre

\* moves of the rewrite protocol: Clean -> BackedUp -> Rewriting ->
\* Committed | RolledBack
ProtocolMoves ==
    {<<"idle", "clean">>, <<"returned", "clean">>, <<"clean", "backedup">>,
     <<"backedup", "rewriting">>, <<"backedup", "failed">>,
     <<"rewriting", "rewriting">>, <<"rewriting", "written">>,
     <<"rewriting", "failed">>, <<"written", "returned">>,
     <<"failed", "returned">>}

\* C14: the backup file is transient: whenever an irregular write has
\* returned or raised there is no backup file; the protocol only moves
\* Clean -> BackedUp -> Rewriting -> Committed or RolledBack, and neither end
\* state has a backup file.
C14_BackupTransient ==
    [][/\ (kind' = "irr" /\ pc' # "crashed" /\ (pc # pc' \/ pc = "rewriting")) =>
             \/ <<pc, pc'>> \in ProtocolMoves
             \/ pc = "returned" /\ pc' = "idle"
       /\ (pc = "written" /\ pc' = "returned") => result' = "ok"
       /\ (pc = "failed" /\ pc' = "returned") => result' = "raised"
       /\ pc' \in {"idle", "returned", "clean"} => ~backupExists'
       /\ pc' \in {"backedup", "rewriting", "written", "failed"} => backupExists'
      ]_vars

C14_Witness ==
    /\ Returned /\ kind = "irr" /\ result = "ok" /\ fmode = "wb"
    /\ nwritten = Len(merged) /\ ~backupExists /\ file # pre

\* rows the last write_log appended
Appended == SubSeq(logTable, Len(logPrev) + 1, Len(logTable))
LogCalled == stamp > 0

\* C15: the change log is append-only: the table before a write_log call is
\* a prefix of the table after it, and the call appends exactly one row per
\* observation of 'created', in order, each stamped with the call's write
\* timestamp; the container is created by the first call.
C15_LogAppendOnly ==
    /\ logExists <=> LogCalled
    /\ ~LogCalled => logTable = <<>>
    /\ LogCalled =>
          /\ Len(logTable) = Len(logPrev) + Len(log_entries.C)
          /\ SubSeq(logTable, 1, Len(logPrev)) = logPrev
          /\ \A i \in 1..Len(log_entries.C) :
                /\ Appended[i][1] = log_entries.C[i][1]
                /\ Appended[i][4] = stamp
                /\ IF isnan(log_entries.C[i][2])
                   THEN \/ <<Appended[i][2], Appended[i][3]>>
                             = <<MISSING_VALUE, METADATA_MISSING_VALUE>>
                        \/ <<Appended[i][2], Appended[i][3]>>
                             = <<NaN, log_entries.C[i][3]>>
                   ELSE <<Appended[i][2], Appended[i][3]>>
                             = <<log_entries.C[i][2], log_entries.C[i][3]>>
          /\ \A i \in 1..Len(logPrev) : logPrev[i][4] < stamp

C15_Witness ==
    /\ LogCalled /\ Len(logPrev) >= 1 /\ Len(log_entries.C) >= 1
    /\ logPrev[1][4] # stamp
    /\ logPrev[1][1] # log_entries.C[1][1]

\* C16 as stated: the log records the before and the after value of every
\* mutated record: a write_log call appends a row for every observation of
\* 'updated' as well as for every observation of 'created'.
C16_UpdatedIsLogged ==
    LogCalled =>
        /\ Len(Appended) = Len(log_entries.C) + Len(log_entries.U)
        /\ \A i \in 1..Len(log_entries.U) :
              \E j \in 1..Len(Appended) :
                 /\ Appended[j][1] = log_entries.U[i][1]
                 /\ Appended[j][2] = log_entries.U[i][2]

\* C16 amended: the log records the after value of every mutated record
\* only: a write_log call appends one row per observation of 'created' and
\* no row for the observations of 'updated', so the call adds exactly
\* len(created) rows, each carrying the time of a 'created' observation.
C16_OnlyCreatedIsLogged ==
    LogCalled =>
        /\ Len(Appended) = Len(log_entries.C)
        /\ \A j \in 1..Len(Appended) :
              Appended[j][1] = log_entries.C[j][1]

C16_Witness ==
    /\ LogCalled /\ Len(log_entries.U) >= 1 /\ Len(log_entries.C) >= 2
    /\ \A i \in 1..Len(log_entries.U) : log_entries.U[i][2] # MISSING_VALUE
    /\ Len(Appended) = Len(log_entries.C)

\* C17: record codec: packing (t, v, m) with a real value v stores exactly
\* (t, v, m); packing a not-a-number v stores (t, MISSING_VALUE,
\* METADATA_MISSING_VALUE) regardless of the tag m, so the two sentinels are
\* written together; every record has the same fixed size.
C17_RecordCodec ==
    /\ Len(codecOut) = Len(codecIn)
    /\ \A i \in 1..Len(codecIn) :
          LET t == codecIn[i][1]
              v == codecIn[i][2]
              m == codecIn[i][3]
          IN  /\ ~isnan(v) => codecOut[i] = <<t, v, m>>
              /\ isnan(v) => codecOut[i] =
                                <<t, MISSING_VALUE, METADATA_MISSING_VALUE>>
              /\ calcsize(codecOut[i]) = entry_size

C17_Witness ==
    \E i, j \in 1..Len(codecIn) :
        /\ isnan(codecIn[i][2]) /\ codecIn[i][3] \in Reals
        /\ ~isnan(codecIn[j][2]) /\ codecIn[j][3] = METADATA_MISSING_VALUE
        /\ codecOut[i][3] # codecIn[i][3]
        /\ codecOut[j] = codecIn[j]

\* C18: in a regular overlap write, an input position whose record on disk
\* is already MISSING is skipped: the record is not rewritten and nothing
\* goes to 'created' or 'updated', whatever value the input supplies there.
C18_MissingPositionSkipped ==
    (Returned /\ freq = "D" /\ kind = "overlap" /\ result = "ok") =>
        \A i \in 1..Len(pre) :
            (pre[i][1] \in Dates(series) /\ IsMissingRecord(pre[i])) =>
                /\ file[i] = pre[i]
                /\ EntriesAt(log_entries.C, pre[i][1]) = {}
                /\ EntriesAt(log_entries.U, pre[i][1]) = {}

\* the input holds, at timestamps that are all on disk, the observations
\* that are on disk: the same real value, or null where the record is MISSING
SameObservation(rec, value) ==
    IF IsMissingRecord(rec) THEN isnan(value) ELSE rec[2] = value
ContributesNothing ==
    /\ Dates(series) \subseteq Dates(pre)
    /\ \A i \in 1..Len(series) :
          SameObservation(RowAt(pre, series[i][1]), series[i][2])

\* C19: an irregular write to an existing file whose input contributes no
\* new timestamp and no differing value at any overlapping timestamp returns
\* empty 'created' and 'updated' lists and performs no file operation: it
\* returns at once, the file is untouched and no backup is ever created.
C19_NoOpIrregularWrite ==
    (freq = "IRR" /\ kind \in {"irr", "irr_noop"} /\ ContributesNothing) =>
        /\ kind = "irr_noop"
        /\ Returned
        /\ log_entries = NoLog
        /\ fileExists /\ file = pre
        /\ ~backupExists

Range(rows) == {rows[i] : i \in 1..Len(rows)}

\* the observation (d, value) is on disk
OnDisk(d, value) ==
    \E j \in 1..Len(file) :
        file[j][1] = d /\ file[j][2] = pack(d, value, DEFAULT_META_ID)[2]

\* C20, single-writer half: when each write runs to completion before the
\* next one starts, no write that returns normally loses data: every
\* observation of its input is on disk, every observation that was on disk
\* at a timestamp outside the input is still there, and a regular file
\* keeps its stride.
C20_SingleWriterLosesNothing ==
    (Returned /\ result = "ok" /\ kind # "empty") =>
        /\ \A i \in 1..Len(series) : OnDisk(series[i][1], series[i][2])
        /\ \A i \in 1..Len(pre) :
              pre[i][1] \notin Dates(series) => pre[i] \in Range(file)
        /\ freq = "D" =>
              \A i \in 1..Len(file) : file[i][1] = file[1][1] + (i - 1) * Step

\* C20, interleaving half: while the steps of two regular writers on one
\* path interleave, the file keeps its stride.  (The claim says this can be
\* broken.)
C20_StrideUnderInterleaving ==
    (freq = "D" /\ fileExists) =>
        \A i \in 1..Len(file) : file[i][1] = file[1][1] + (i - 1) * Step
====
